---- MODULE Spec2Model ----
(***************************************************************************)
(* PowerTraderAI: the paper-trading Ledger (app/pt_paper_trading.py), its  *)
(* input validation (app/pt_validation.py) and the Risk Manager            *)
(* (app/pt_risk.py).                                                       *)
(*                                                                         *)
(* Number representation.  The Ledger computes with decimal.Decimal.       *)
(*   quantities : integers counting tenths of a unit      (QScale  = 10)   *)
(*   prices     : integers counting thousandths            (PScale = 1000) *)
(*   money      : integers counting 1/10000  (= QScale * PScale), so that  *)
(*                quantity * price is money with no rescaling.             *)
(* Decimal +, - and * are exact on the values used here.  Decimal division *)
(* rounds its quotient (ROUND_HALF_EVEN) to the context precision; the     *)
(* model keeps the rounding mode and rounds the quotient to PScale         *)
(* fractional digits, the precision that fits the checker's integers.      *)
(***************************************************************************)
EXTENDS Integers, Sequences, FiniteSets, TLC

(* ---------------------------- bounds ----------------------------------- *)
MaxOrders == 1          \* orders placed on the account, any kind
MaxTrades == 2          \* orders placed when only market orders are placed
MaxBuys == 3            \* orders placed when only market buys are placed
MaxSysOrders == 1       \* orders placed while the Risk Manager is exercised
MaxAlerts == 4          \* risk alerts kept in RiskManager.alerts
MaxSnapshots == 2       \* emergency snapshots written
MaxMarkOrders == 1      \* orders placed while marks are refreshed
MaxStarts == 1          \* start_monitoring() calls that start threads
MaxTicks == 1           \* iterations of one metrics-collection loop
MaxHandlers == 2        \* custom alert handlers registered
MaxMonAlerts == 4       \* alerts created directly on the monitor
MaxTime == 3            \* clock units the clock advances
MaxStops == 2           \* emergency_stop() calls that run the cascade
MaxSeedOrders == 1      \* orders placed before the two threads place theirs
MaxSamples == 2         \* entries of one metric history
MaxRuns == 2            \* start_monitoring() calls that start threads, with restarts

(* ------------------------ scales and inputs ---------------------------- *)
QScale == 10
PScale == 1000
MScale == QScale * PScale

Money(units) == units * MScale
Price(units) == units * PScale

\* prices the injected price feed may return (per unit)
FeedPrices == {Price(100), Price(200), Price(45000)}
\* quantities a caller may pass, in tenths: -0.1, 0, 0.1, 0.2, 0.3
Quantities == {-1, 0, 1, 2, 3}
\* Optional[Decimal] arguments: <<>> is None, <<x>> is Decimal x
None == <<>>
LimitPrices == {None, <<0>>, <<Price(-5)>>, <<Price(110000)>>}
\* the price arguments a caller passes with each order type
PricesFor(order_type) == IF order_type = "MARKET" THEN {None} ELSE LimitPrices

\* symbol arguments: a str (sequence of characters) or a non-str object
Str(chars) == [kind |-> "str", chars |-> chars]
BTC == <<"B", "T", "C">>
SymbolInputs == { Str(BTC), Str(<<" ", "b", "t", "c", " ">>), Str(<<"B">>),
                  Str(<<>>), Str(<<"B", "T", "1">>),
                  [kind |-> "int", chars |-> <<>>] }

(* ------------------------- arithmetic ---------------------------------- *)
Max(a, b) == IF a >= b THEN a ELSE b
Min(a, b) == IF a <= b THEN a ELSE b
Abs(a) == IF a < 0 THEN 0 - a ELSE a

\* Decimal division n / d for n >= 0, d > 0, quotient rounded half-even
DivRound(n, d) ==
  LET q == n \div d
      r == n % d
  IN  IF 2 * r < d THEN q
      ELSE IF 2 * r > d THEN q + 1
      ELSE IF q % 2 = 0 THEN q ELSE q + 1

\* floor(v * pct / 100), computed without leaving the integer range
PctOf(v, pct) == (v \div 100) * pct + ((v % 100) * pct) \div 100

RECURSIVE SumOver(_, _)
SumOver(f, S) ==
  IF S = {} THEN 0
  ELSE LET x == CHOOSE y \in S : TRUE
       IN  f[x] + SumOver(f, S \ {x})

Last(s) == s[Len(s)]

(* ------------------- pt_validation.InputValidator ---------------------- *)
LowerAZ == <<"a","b","c","d","e","f","g","h","i","j","k","l","m",
             "n","o","p","q","r","s","t","u","v","w","x","y","z">>
UpperAZ == <<"A","B","C","D","E","F","G","H","I","J","K","L","M",
             "N","O","P","Q","R","S","T","U","V","W","X","Y","Z">>
Whitespace == {" ", "\t", "\n"}

ToUpper(c) ==
  IF \E i \in 1..26 : LowerAZ[i] = c
    THEN UpperAZ[CHOOSE i \in 1..26 : LowerAZ[i] = c]
    ELSE c

RECURSIVE LStrip(_)
LStrip(s) == IF s # <<>> /\ Head(s) \in Whitespace THEN LStrip(Tail(s)) ELSE s
RECURSIVE RStrip(_)
RStrip(s) ==
  IF s # <<>> /\ s[Len(s)] \in Whitespace
    THEN RStrip(SubSeq(s, 1, Len(s) - 1)) ELSE s
Strip(s) == RStrip(LStrip(s))
Upper(s) == [i \in 1..Len(s) |-> ToUpper(s[i])]

\* CRYPTO_SYMBOL_PATTERN  ^[A-Z]{2,10}$
CRYPTO_SYMBOL_PATTERN(s) ==
  /\ Len(s) >= 2
  /\ Len(s) <= 10
  /\ \A i \in 1..Len(s) : \E j \in 1..26 : UpperAZ[j] = s[i]

\* validate_crypto_symbol: the normalised symbol, or ValidationError
validate_crypto_symbol(symbol) ==
  IF symbol.kind # "str" THEN [ok |-> FALSE, value |-> <<>>]
  ELSE LET s == Upper(Strip(symbol.chars))
       IN  IF s = <<>> THEN [ok |-> FALSE, value |-> <<>>]
           ELSE IF ~CRYPTO_SYMBOL_PATTERN(s) THEN [ok |-> FALSE, value |-> <<>>]
           ELSE [ok |-> TRUE, value |-> s]

MAX_VOLUME == 1000000000

\* validate_volume: volume in tenths; only negative and > MAX_VOLUME raise
validate_volume(volume) ==
  IF volume < 0 THEN [ok |-> FALSE, value |-> 0]
  ELSE IF (volume \div QScale > MAX_VOLUME)
          \/ (volume \div QScale = MAX_VOLUME /\ volume % QScale > 0)
    THEN [ok |-> FALSE, value |-> 0]
  ELSE [ok |-> TRUE, value |-> volume]

(* ------------------ pt_paper_trading: data classes --------------------- *)
OrderTypes == {"MARKET", "LIMIT", "STOP_LOSS", "TAKE_PROFIT"}
OrderSides == {"BUY", "SELL"}
OrderStatuses == {"PENDING", "FILLED", "CANCELLED", "PARTIAL", "REJECTED"}

\* Order(...) as the dataclass defaults leave it
Order(symbol, order_type, side, quantity, price, stop_price) ==
  [ symbol |-> symbol, order_type |-> order_type, side |-> side,
    quantity |-> quantity, price |-> price, stop_price |-> stop_price,
    status |-> "PENDING", filled_quantity |-> 0, filled_price |-> 0,
    commission |-> 0 ]

\* Position(symbol, quantity, average_price, current_price)
Position(quantity, average_price, current_price) ==
  [ quantity |-> quantity, average_price |-> average_price,
    current_price |-> current_price, unrealized_pnl |-> 0,
    realized_pnl |-> 0 ]

TradeRecord(order_id, symbol, side, quantity, price, commission, pnl) ==
  [ order_id |-> order_id, symbol |-> symbol, side |-> side,
    quantity |-> quantity, price |-> price, commission |-> commission,
    pnl |-> pnl ]

NoPositions == [s \in {} |-> 0]

(* ---------------- pt_risk.RiskManager: construction -------------------- *)
CascadeSteps == << "_halt_all_strategies", "_cancel_all_pending_orders",
                   "_close_all_positions", "_disconnect_apis",
                   "_save_emergency_snapshot",
                   "_send_emergency_notifications" >>

\* RiskLimits() defaults, in percent
RiskLimits == [ max_daily_loss |-> 2, max_position_size |-> 10 ]

\* risk_thresholds, in percent
risk_thresholds ==
  [ portfolio_drawdown |-> [warning |-> 3, critical |-> 5, emergency |-> 8],
    volatility |-> [warning |-> 25, critical |-> 40, emergency |-> 60] ]

\* RiskManager(limits, portfolio_value).  cascade counts the executions of
\* each cascade step; snapshots are the snapshot files written.
RiskManager(limits, portfolio_value) ==
  [ limits |-> limits, portfolio_value |-> portfolio_value,
    alerts |-> <<>>, is_trading_halted |-> FALSE,
    emergency_stop_triggered |-> FALSE, monitoring_active |-> FALSE,
    cascade |-> [i \in 1..Len(CascadeSteps) |-> 0],
    snapshots |-> <<>> ]

(* ------------------ pt_paper_trading.PaperTradingAccount --------------- *)
PaperTradingAccount(initial_balance, commission_rate) ==
  [ initial_balance |-> initial_balance, cash_balance |-> initial_balance,
    commission_rate |-> commission_rate,
    positions |-> NoPositions, orders |-> <<>>, trade_history |-> <<>>,
    total_trades |-> 0, winning_trades |-> 0, total_commission_paid |-> 0,
    max_drawdown |-> 0, peak_value |-> initial_balance ]

\* Position.market_value
market_value(pos) == pos.quantity * pos.current_price

\* total_portfolio_value property
total_portfolio_value(a) ==
  a.cash_balance
    + SumOver([s \in DOMAIN a.positions |-> market_value(a.positions[s])],
              DOMAIN a.positions)

\* _validate_order_risk: order value against max(2%, 10%) of the portfolio
_validate_order_risk(a, order, current_price) ==
  LET current_value == total_portfolio_value(a)
      order_value == order.quantity * current_price
      max_position_value == PctOf(current_value, 2)
      max_portfolio_percent == PctOf(current_value, 10)
      max_allowed == Max(max_position_value, max_portfolio_percent)
  IN  order_value <= max_allowed

\* gross_amount * commission_rate (rate in thousandths)
Commission(gross_amount, commission_rate) ==
  (gross_amount * commission_rate) \div PScale

\* _estimate_order_cost
_estimate_order_cost(a, order, feed_price) ==
  IF order.side = "BUY"
    THEN LET current_price == IF order.order_type = "MARKET"
                                THEN feed_price ELSE order.price
             gross_amount == order.quantity * current_price
             commission == Commission(gross_amount, a.commission_rate)
         IN  gross_amount + commission
    ELSE 0

\* _add_position: [positions, raised]; Decimal 0/0 raises InvalidOperation
_add_position(positions, symbol, quantity, price) ==
  IF symbol \in DOMAIN positions
    THEN LET existing == positions[symbol]
             total_quantity == existing.quantity + quantity
             total_cost == (existing.quantity * existing.average_price)
                             + (quantity * price)
         IN  IF total_quantity = 0
               THEN [positions |-> positions, raised |-> TRUE]
               ELSE [ positions |->
                        [positions EXCEPT ![symbol] =
                           [ existing EXCEPT
                               !.quantity = total_quantity,
                               !.average_price =
                                  DivRound(total_cost, total_quantity),
                               !.current_price = price ]],
                      raised |-> FALSE ]
    ELSE [ positions |->
             [s \in DOMAIN positions \cup {symbol} |->
                IF s = symbol THEN Position(quantity, price, price)
                              ELSE positions[s]],
           raised |-> FALSE ]

\* _reduce_position with the operands of the P&L subtraction swapped
_reduce_position_swapped(positions, symbol, quantity, price) ==
  IF symbol \notin DOMAIN positions
    THEN [positions |-> positions, pnl |-> 0]
  ELSE LET position == positions[symbol] IN
    IF position.quantity < quantity
      THEN [positions |-> positions, pnl |-> 0]
    ELSE LET pnl == (position.average_price - price) * quantity
             reduced == [ position EXCEPT
                            !.quantity = position.quantity - quantity,
                            !.realized_pnl = position.realized_pnl + pnl ]
         IN  IF reduced.quantity = 0
               THEN [ positions |-> [s \in DOMAIN positions \ {symbol} |->
                                       positions[s]],
                      pnl |-> pnl ]
               ELSE [ positions |-> [positions EXCEPT ![symbol] = reduced],
                      pnl |-> pnl ]

\* _reduce_position: [positions, pnl]
_reduce_position(positions, symbol, quantity, price) ==
  IF symbol \notin DOMAIN positions
    THEN [positions |-> positions, pnl |-> 0]
  ELSE LET position == positions[symbol] IN
    IF position.quantity < quantity
      THEN [positions |-> positions, pnl |-> 0]
    ELSE LET pnl == (price - position.average_price) * quantity
             reduced == [ position EXCEPT
                            !.quantity = position.quantity - quantity,
                            !.realized_pnl = position.realized_pnl + pnl ]
         IN  IF reduced.quantity = 0
               THEN [ positions |-> [s \in DOMAIN positions \ {symbol} |->
                                       positions[s]],
                      pnl |-> pnl ]
               ELSE [ positions |-> [positions EXCEPT ![symbol] = reduced],
                      pnl |-> pnl ]

\* _execute_order: [acct, raised]
_execute_order(a, order_id, feed_price) ==
  IF order_id \notin DOMAIN a.orders THEN [acct |-> a, raised |-> FALSE]
  ELSE LET order == a.orders[order_id] IN
    IF order.status # "PENDING" THEN [acct |-> a, raised |-> FALSE]
    ELSE
      LET execution_price == IF order.order_type = "MARKET"
                               THEN feed_price ELSE order.price
          gross_amount == order.quantity * execution_price
          commission == Commission(gross_amount, a.commission_rate)
          filled == [ order EXCEPT !.filled_quantity = order.quantity,
                                   !.filled_price = execution_price,
                                   !.commission = commission,
                                   !.status = "FILLED" ]
          a1 == [a EXCEPT !.orders[order_id] = filled]
      IN
        IF order.side = "BUY"
          THEN LET added == _add_position(a1.positions, order.symbol,
                                          order.quantity, execution_price)
               IN  IF added.raised THEN [acct |-> a1, raised |-> TRUE]
                   ELSE [ acct |->
                            [ a1 EXCEPT
                                !.positions = added.positions,
                                !.cash_balance =
                                   a1.cash_balance - (gross_amount + commission),
                                !.total_commission_paid =
                                   a1.total_commission_paid + commission,
                                !.total_trades = a1.total_trades + 1 ],
                          raised |-> FALSE ]
          ELSE LET reducedp == _reduce_position(a1.positions, order.symbol,
                                                order.quantity, execution_price)
                   trade == TradeRecord(order_id, order.symbol, order.side,
                                        order.quantity, execution_price,
                                        commission, reducedp.pnl)
               IN  [ acct |->
                       [ a1 EXCEPT
                           !.positions = reducedp.positions,
                           !.cash_balance =
                              a1.cash_balance + (gross_amount - commission),
                           !.trade_history = Append(a1.trade_history, trade),
                           !.total_commission_paid =
                              a1.total_commission_paid + commission,
                           !.total_trades = a1.total_trades + 1,
                           !.winning_trades =
                              IF trade.pnl > 0 THEN a1.winning_trades + 1
                                               ELSE a1.winning_trades ],
                     raised |-> FALSE ]

\* the rejection path with the status assignment forgotten
Rejected_status_kept(a, order) ==
  [a EXCEPT !.orders = Append(a.orders, order)]

\* an order recorded as REJECTED (lines 266-269, 275-278, 283-286)
Rejected(a, order) ==
  [a EXCEPT !.orders = Append(a.orders, [order EXCEPT !.status = "REJECTED"])]

\* place_order: [acct, outcome, order_id, feed].  p1, p2, p3 are what the
\* price feed returns to the risk check, the cost estimate and the
\* execution; feed lists the answers the call actually asked for.
place_order(a, symbol, order_type, side, quantity, price, stop_price, p1, p2, p3) ==
  LET vsym == validate_crypto_symbol(symbol)
      vqty == validate_volume(quantity)
  IN
  IF ~vsym.ok \/ ~vqty.ok
    THEN [acct |-> a, outcome |-> "ValidationError", order_id |-> 0,
          feed |-> <<>>]
  ELSE
    LET order == Order(vsym.value, order_type, side, vqty.value,
                       IF price = None \/ price = <<0>> THEN 0 ELSE price[1],
                       stop_price)
        order_id == Len(a.orders) + 1
        asked == IF side = "BUY" /\ order_type = "MARKET"
                   THEN <<p1, p2>> ELSE <<p1>>
    IN
    IF ~_validate_order_risk(a, order, p1)
      THEN [acct |-> Rejected(a, order), outcome |-> "returned",
            order_id |-> order_id, feed |-> <<p1>>]
    ELSE IF side = "BUY" /\ _estimate_order_cost(a, order, p2) > a.cash_balance
      THEN [acct |-> Rejected(a, order), outcome |-> "returned",
            order_id |-> order_id, feed |-> asked]
    ELSE IF side = "SELL"
            /\ (order.symbol \notin DOMAIN a.positions
                \/ a.positions[order.symbol].quantity < order.quantity)
      THEN [acct |-> Rejected(a, order), outcome |-> "returned",
            order_id |-> order_id, feed |-> asked]
    ELSE
      LET a1 == [a EXCEPT !.orders = Append(a.orders, order)]
      IN  IF order_type = "MARKET"
            THEN LET ex == _execute_order(a1, order_id, p3)
                 IN  [ acct |-> ex.acct,
                       outcome |-> IF ex.raised THEN "InvalidOperation"
                                                ELSE "returned",
                       order_id |-> IF ex.raised THEN 0 ELSE order_id,
                       feed |-> Append(asked, p3) ]
            ELSE [acct |-> a1, outcome |-> "returned", order_id |-> order_id,
                  feed |-> asked]

\* place_order up to the call of _execute_order (lines 246-289): the
\* validation, the risk check, the check of buying power or of the quantity
\* held, and the order stored: [acct, outcome, order_id].  p1 and p2 are
\* what the price feed returns to the risk check and the cost estimate.
place_order_checks(a, symbol, order_type, side, quantity, price, stop_price, p1, p2) ==
  LET vsym == validate_crypto_symbol(symbol)
      vqty == validate_volume(quantity)
  IN
  IF ~vsym.ok \/ ~vqty.ok
    THEN [acct |-> a, outcome |-> "ValidationError", order_id |-> 0]
  ELSE
    LET order == Order(vsym.value, order_type, side, vqty.value,
                       IF price = None \/ price = <<0>> THEN 0 ELSE price[1],
                       stop_price)
        order_id == Len(a.orders) + 1
    IN
    IF ~_validate_order_risk(a, order, p1)
      THEN [acct |-> Rejected(a, order), outcome |-> "rejected",
            order_id |-> order_id]
    ELSE IF side = "BUY" /\ _estimate_order_cost(a, order, p2) > a.cash_balance
      THEN [acct |-> Rejected(a, order), outcome |-> "rejected",
            order_id |-> order_id]
    ELSE IF side = "SELL"
            /\ (order.symbol \notin DOMAIN a.positions
                \/ a.positions[order.symbol].quantity < order.quantity)
      THEN [acct |-> Rejected(a, order), outcome |-> "rejected",
            order_id |-> order_id]
    ELSE [ acct |-> [a EXCEPT !.orders = Append(a.orders, order)],
           outcome |-> "placed", order_id |-> order_id ]

\* cancel_order without its check of the order's status
cancel_order_any(a, order_id) ==
  IF order_id \notin DOMAIN a.orders THEN [acct |-> a, result |-> FALSE]
  ELSE [ acct |-> [a EXCEPT !.orders[order_id].status = "CANCELLED"],
         result |-> TRUE ]

\* cancel_order: [acct, result]
cancel_order(a, order_id) ==
  IF order_id \notin DOMAIN a.orders THEN [acct |-> a, result |-> FALSE]
  ELSE IF a.orders[order_id].status = "PENDING"
    THEN [ acct |-> [a EXCEPT !.orders[order_id].status = "CANCELLED"],
           result |-> TRUE ]
  ELSE [acct |-> a, result |-> FALSE]

\* a * b = q * d + r with 0 <= r < d, for 0 <= a <= d and b >= 0, computed
\* by doubling so that no intermediate value leaves the integer range
RECURSIVE MulDivMod(_, _, _)
MulDivMod(a, b, d) ==
  IF b = 0 THEN [q |-> 0, r |-> 0]
  ELSE LET h == MulDivMod(a, b \div 2, d)
           t == 2 * h.r + (b % 2) * a
       IN  [q |-> 2 * h.q + t \div d, r |-> t % d]

\* Decimal division a / d for 0 <= a <= d, the quotient rounded half-even to
\* PScale fractional digits (a fraction counted in thousandths)
Fraction(a, d) ==
  LET qr == MulDivMod(a, PScale, d)
  IN  IF 2 * qr.r < d THEN qr.q
      ELSE IF 2 * qr.r > d THEN qr.q + 1
      ELSE IF qr.q % 2 = 0 THEN qr.q ELSE qr.q + 1

\* update_market_prices: prices[symbol] is what the feed returns for symbol
update_market_prices(a, prices) ==
  LET marked == [ s \in DOMAIN a.positions |->
                    [ a.positions[s] EXCEPT
                        !.current_price = prices[s],
                        !.unrealized_pnl =
                           (prices[s] - a.positions[s].average_price)
                             * a.positions[s].quantity ] ]
      a1 == [a EXCEPT !.positions = marked]
      current_value == total_portfolio_value(a1)
  IN  IF current_value > a1.peak_value
        THEN [a1 EXCEPT !.peak_value = current_value]
        ELSE LET drawdown == Fraction(a1.peak_value - current_value,
                                      a1.peak_value)
             IN  IF drawdown > a1.max_drawdown
                   THEN [a1 EXCEPT !.max_drawdown = drawdown]
                   ELSE a1

\* the factor of scale that is odd: value / scale is a binary fraction
\* exactly when this factor divides value
OddPart(scale) ==
  CASE scale = 1 -> 1
    [] scale = QScale -> 5
    [] scale = PScale -> 125
    [] scale = MScale -> 625

\* float(Decimal): the double nearest to value / scale.  The doubles are far
\* denser than the decimals of the model, so a double is told by the decimal
\* it is nearest to; it equals that decimal only when the decimal is a
\* binary fraction.
float(value, scale) ==
  [nearest |-> value, scale |-> scale, exact |-> value % OddPart(scale) = 0]

\* a float compared with a Decimal (Python compares the two exactly)
FloatEqualsDecimal(f, value) == f.exact /\ f.nearest = value

\* the summary built from the positions as they are, without the refresh
\* of the marks that get_account_summary starts with
summary_of(a) ==
  LET symbols == DOMAIN a.positions
      positions_value ==
        SumOver([s \in symbols |-> market_value(a.positions[s])], symbols)
      unrealized_pnl ==
        SumOver([s \in symbols |-> a.positions[s].unrealized_pnl], symbols)
      realized_pnl ==
        SumOver([i \in DOMAIN a.trade_history |-> a.trade_history[i].pnl],
                DOMAIN a.trade_history)
  IN  [ cash_balance |-> float(a.cash_balance, MScale),
        positions_value |-> float(positions_value, MScale),
        total_value |-> float(total_portfolio_value(a), MScale),
        unrealized_pnl |-> float(unrealized_pnl, MScale),
        realized_pnl |-> float(realized_pnl, MScale),
        total_pnl |-> float(realized_pnl + unrealized_pnl, MScale),
        total_trades |-> a.total_trades,
        winning_trades |-> a.winning_trades,
        win_rate_pct |-> [ winning_trades |-> a.winning_trades,
                           of |-> Max(a.total_trades, 1) ],
        max_drawdown_pct |-> float(a.max_drawdown, PScale \div 100),
        positions |->
          [ s \in symbols |->
              [ quantity |-> float(a.positions[s].quantity, QScale),
                avg_price |-> float(a.positions[s].average_price, PScale),
                current_price |-> float(a.positions[s].current_price, PScale),
                market_value |-> float(market_value(a.positions[s]), MScale),
                unrealized_pnl |->
                  float(a.positions[s].unrealized_pnl, MScale) ] ] ]

\* get_account_summary reporting the figures of before its refresh
get_account_summary_stale(a, prices) ==
  [acct |-> update_market_prices(a, prices), summary |-> summary_of(a)]

\* get_account_summary: [acct, summary]; refreshes the marks, then reports
get_account_summary(a, prices) ==
  LET a1 == update_market_prices(a, prices)
  IN  [acct |-> a1, summary |-> summary_of(a1)]

(* --------------------- pt_risk.RiskManager ----------------------------- *)
RiskAlert(level, event_type) == [level |-> level, event_type |-> event_type]

\* get_portfolio_metrics: the fixed figures the method returns
get_portfolio_metrics(r) ==
  [ total_value |-> r.portfolio_value, daily_pnl |-> 0, volatility |-> 15,
    positions |-> << <<"BTC", 30>>, <<"ETH", 20>>, <<"STOCKS", 50>> >> ]

\* self.alerts[-10:]
RecentAlerts(alerts) ==
  IF Len(alerts) <= 10 THEN alerts
  ELSE SubSeq(alerts, Len(alerts) - 9, Len(alerts))

\* line 317
EsSetTriggered(r) == [r EXCEPT !.emergency_stop_triggered = TRUE]
\* line 318
EsSetHalted(r) == [r EXCEPT !.is_trading_halted = TRUE]

\* _save_emergency_snapshot: one snapshot file per call; the working
\* directory is taken to be writable, so the write succeeds
_save_emergency_snapshot(r) ==
  [r EXCEPT !.snapshots =
     Append(r.snapshots, [ portfolio_value |-> r.portfolio_value,
                           alerts |-> RecentAlerts(r.alerts) ])]

\* one of the six cascade calls of emergency_stop (lines 324-339); the
\* steps other than the snapshot only write a log line
CascadeStep(r, i) ==
  LET counted == [r EXCEPT !.cascade[i] = r.cascade[i] + 1]
  IN  IF CascadeSteps[i] = "_save_emergency_snapshot"
        THEN _save_emergency_snapshot(counted)
        ELSE counted

RECURSIVE RunCascade(_, _)
RunCascade(r, i) ==
  IF i > Len(CascadeSteps) THEN r ELSE RunCascade(CascadeStep(r, i), i + 1)

\* emergency_stop without its already-triggered check
emergency_stop_unguarded(r) ==
  RunCascade(EsSetHalted(EsSetTriggered(r)), 1)

\* emergency_stop, run without interruption
emergency_stop(r) ==
  IF r.emergency_stop_triggered THEN r
  ELSE RunCascade(EsSetHalted(EsSetTriggered(r)), 1)

\* how a cascade step ends: it returns, or it raises an Exception; the
\* snapshot step may also fail to write its file, which it catches itself
\* (lines 373-378) before it returns
StepOutcomes(i) ==
  IF CascadeSteps[i] = "_save_emergency_snapshot"
    THEN {"returns", "raises", "write_fails"}
    ELSE {"returns", "raises"}

CascadeOutcomes ==
  {o \in [1..Len(CascadeSteps) -> {"returns", "raises", "write_fails"}] :
     \A i \in 1..Len(CascadeSteps) : o[i] \in StepOutcomes(i)}

\* one cascade call that ends as outcome says: the call is counted, and the
\* snapshot file exists only when the step returned after writing it
CascadeStepWith(r, i, outcome) ==
  IF outcome = "returns" THEN CascadeStep(r, i)
  ELSE [r EXCEPT !.cascade[i] = r.cascade[i] + 1]

\* the try block of lines 322-342: the calls in order up to the first one
\* that raises, which takes the block to its except clause
RECURSIVE RunCascadeWith(_, _, _)
RunCascadeWith(r, i, outcomes) ==
  IF i > Len(CascadeSteps) THEN r
  ELSE IF outcomes[i] = "raises" THEN CascadeStepWith(r, i, outcomes[i])
  ELSE RunCascadeWith(CascadeStepWith(r, i, outcomes[i]), i + 1, outcomes)

\* the first step that raises, 0 when none does
FirstRaising(outcomes) ==
  IF \E i \in DOMAIN outcomes : outcomes[i] = "raises"
    THEN CHOOSE i \in DOMAIN outcomes :
           /\ outcomes[i] = "raises"
           /\ \A j \in 1..(i - 1) : outcomes[j] # "raises"
    ELSE 0

\* emergency_stop with no try around its cascade: [rm, raised]
emergency_stop_no_try(r, outcomes) ==
  IF r.emergency_stop_triggered THEN [rm |-> r, raised |-> FALSE]
  ELSE [ rm |-> RunCascadeWith(EsSetHalted(EsSetTriggered(r)), 1, outcomes),
         raised |-> FirstRaising(outcomes) # 0 ]

\* emergency_stop when its cascade steps end as outcomes says: [rm, raised];
\* what a step raises is caught and logged on lines 341-342
emergency_stop_with(r, outcomes) ==
  IF r.emergency_stop_triggered THEN [rm |-> r, raised |-> FALSE]
  ELSE [ rm |-> RunCascadeWith(EsSetHalted(EsSetTriggered(r)), 1, outcomes),
         raised |-> FALSE ]

_handle_critical_alert(r) == [r EXCEPT !.is_trading_halted = TRUE]

_handle_emergency_alert(r) == emergency_stop(r)

_trigger_alert(r, level, event_type) ==
  LET r1 == [r EXCEPT !.alerts = Append(r.alerts, RiskAlert(level, event_type))]
  IN  IF level = "WARNING" THEN r1
      ELSE IF level = "CRITICAL" THEN _handle_critical_alert(r1)
      ELSE IF level = "EMERGENCY" THEN _handle_emergency_alert(r1)
      ELSE r1

\* _check_portfolio_risk: daily loss against limit and thresholds (percent)
_check_portfolio_risk(r, metrics) ==
  IF metrics.daily_pnl < 0
    THEN LET loss == Abs(metrics.daily_pnl)
             \* loss / total_value >= pct / 100
             AtLeast(pct) == loss >= (pct * metrics.total_value + 99) \div 100
         IN  IF AtLeast(r.limits.max_daily_loss)
               THEN emergency_stop(
                      _trigger_alert(r, "EMERGENCY", "PORTFOLIO_DRAWDOWN"))
             ELSE IF AtLeast(risk_thresholds.portfolio_drawdown.critical)
               THEN _trigger_alert(r, "CRITICAL", "PORTFOLIO_DRAWDOWN")
             ELSE IF AtLeast(risk_thresholds.portfolio_drawdown.warning)
               THEN _trigger_alert(r, "WARNING", "PORTFOLIO_DRAWDOWN")
             ELSE r
    ELSE r

\* _check_position_risk: one CRITICAL alert per position above the limit
RECURSIVE CheckPositions(_, _, _)
CheckPositions(r, positions, i) ==
  IF i > Len(positions) THEN r
  ELSE CheckPositions(
         IF positions[i][2] > r.limits.max_position_size
           THEN _trigger_alert(r, "CRITICAL", "POSITION_CONCENTRATION")
           ELSE r,
         positions, i + 1)

_check_position_risk(r, metrics) == CheckPositions(r, metrics.positions, 1)

_check_volatility_risk(r, metrics) ==
  IF metrics.volatility >= risk_thresholds.volatility.emergency
    THEN emergency_stop(_trigger_alert(r, "EMERGENCY", "VOLATILITY_SPIKE"))
  ELSE IF metrics.volatility >= risk_thresholds.volatility.critical
    THEN _trigger_alert(r, "CRITICAL", "VOLATILITY_SPIKE")
  ELSE r

\* one iteration of _monitor_risk_loop
_monitor_risk_loop(r) ==
  LET metrics == get_portfolio_metrics(r)
  IN  _check_volatility_risk(
        _check_position_risk(_check_portfolio_risk(r, metrics), metrics),
        metrics)

\* calculate_position_size, percentages of account_value
calculate_position_size(r, account_value, risk_per_trade) ==
  LET max_risk_amount == PctOf(account_value, risk_per_trade)
      max_position == PctOf(account_value, r.limits.max_position_size)
      daily_loss_budget == PctOf(account_value, r.limits.max_daily_loss)
  IN  Min(max_risk_amount, Min(max_position, daily_loss_budget))

\* validate_trade: (is_valid, reason); value is the amount in the reason
validate_trade(r, quantity, price) ==
  IF r.is_trading_halted
    THEN [ approved |-> FALSE, value |-> 0,
           reason |-> "Trading is currently halted due to risk controls" ]
  ELSE IF r.emergency_stop_triggered
    THEN [ approved |-> FALSE, value |-> 0,
           reason |-> "Emergency stop is active - no trading allowed" ]
  ELSE LET trade_value == quantity * price IN
    IF trade_value > calculate_position_size(r, r.portfolio_value, 1)
      THEN [ approved |-> FALSE, value |-> trade_value,
             reason |-> "Trade size exceeds risk limits" ]
      ELSE [approved |-> TRUE, value |-> 0, reason |-> "Trade approved"]

\* the characters of the reasons validate_trade returns.  The amount that
\* the f-string appends to the third one consists of digits, commas and a
\* period and is left out.
ReasonText(reason) ==
  CASE reason = "Trading is currently halted due to risk controls" ->
         << "T","r","a","d","i","n","g"," ","i","s"," ","c","u","r","r","e",
            "n","t","l","y"," ","h","a","l","t","e","d"," ","d","u","e"," ",
            "t","o"," ","r","i","s","k"," ","c","o","n","t","r","o","l","s" >>
    [] reason = "Emergency stop is active - no trading allowed" ->
         << "E","m","e","r","g","e","n","c","y"," ","s","t","o","p"," ","i",
            "s"," ","a","c","t","i","v","e"," ","-"," ","n","o"," ","t","r",
            "a","d","i","n","g"," ","a","l","l","o","w","e","d" >>
    [] reason = "Trade size exceeds risk limits" ->
         << "T","r","a","d","e"," ","s","i","z","e"," ","e","x","c","e","e",
            "d","s"," ","r","i","s","k"," ","l","i","m","i","t","s",":"," ",
            "$" >>
    [] reason = "Trade approved" ->
         << "T","r","a","d","e"," ","a","p","p","r","o","v","e","d" >>

\* str.lower() of a character
ToLower(c) ==
  IF \E i \in 1..26 : UpperAZ[i] = c
    THEN LowerAZ[CHOOSE i \in 1..26 : UpperAZ[i] = c]
    ELSE c

Lower(s) == [i \in 1..Len(s) |-> ToLower(s[i])]

\* phrase in text
Contains(text, phrase) ==
  \E i \in 0..(Len(text) - Len(phrase)) :
    \A j \in 1..Len(phrase) : text[i + j] = phrase[j]

\* reset_emergency_stop clearing the flags before it checks the override
reset_emergency_stop_unchecked(r, manual_override) ==
  [ rm |-> [r EXCEPT !.emergency_stop_triggered = FALSE,
                     !.is_trading_halted = FALSE],
    raised |-> ~manual_override ]

\* reset_emergency_stop: [rm, raised]
reset_emergency_stop(r, manual_override) ==
  IF ~manual_override THEN [rm |-> r, raised |-> TRUE]
  ELSE [ rm |-> [r EXCEPT !.emergency_stop_triggered = FALSE,
                          !.is_trading_halted = FALSE],
         raised |-> FALSE ]

(* ------------------- pt_live_monitor.LiveMonitor ----------------------- *)
\* datetime values count clock units; an hour is Hour of them
Hour == 2

AlertLevel ==
  [INFO |-> "info", WARNING |-> "warning", ERROR |-> "error",
   CRITICAL |-> "critical"]

\* the default configuration of _load_config
default_config ==
  [ metrics_retention_hours |-> 24,
    alerts_retention_days |-> 7,
    thresholds |-> [ max_drawdown_pct |-> 5,
                     min_available_balance_pct |-> 10,
                     max_cpu_usage_pct |-> 80,
                     max_response_time_ms |-> 5000 ] ]

\* a configuration file that sets two thresholds to 0
zero_thresholds_config ==
  [ default_config EXCEPT !.thresholds.max_cpu_usage_pct = 0,
                          !.thresholds.min_available_balance_pct = 0 ]

\* a configuration file that keeps metrics for one hour
short_retention_config ==
  [default_config EXCEPT !.metrics_retention_hours = 1]

\* the configurations _load_config may find at config_path
Configs == {default_config, zero_thresholds_config, short_retention_config}

\* LiveMonitor(config_path) once the configuration is loaded.  metrics maps
\* a metric name to its history; metric_names lists the names in the order
\* in which the dict received them.
LiveMonitor(config) ==
  [ config |-> config, is_running |-> FALSE,
    metric_names |-> <<>>, metrics |-> [n \in {} |-> <<>>],
    alerts |-> <<>>, alert_queue |-> <<>>, alert_handlers |-> <<>> ]

Alert(alert_id, level, component, timestamp) ==
  [ alert_id |-> alert_id, level |-> level, component |-> component,
    timestamp |-> timestamp ]

MonitoringMetric(name, value, threshold_low, threshold_high, timestamp) ==
  [ name |-> name, value |-> value, threshold_low |-> threshold_low,
    threshold_high |-> threshold_high, timestamp |-> timestamp ]

\* MonitoringMetric.is_within_bounds
is_within_bounds(metric) ==
  IF metric.threshold_low # None /\ metric.value < metric.threshold_low[1]
    THEN FALSE
  ELSE IF metric.threshold_high # None
            /\ metric.value > metric.threshold_high[1]
    THEN FALSE
  ELSE TRUE

\* the entries of a list that are newer than cutoff, in their order
RECURSIVE NewerThan(_, _)
NewerThan(list, cutoff) ==
  IF list = <<>> THEN <<>>
  ELSE IF Head(list).timestamp > cutoff
    THEN <<Head(list)>> \o NewerThan(Tail(list), cutoff)
    ELSE NewerThan(Tail(list), cutoff)

\* _add_metric at time t
_add_metric(m, t, name, value, threshold_low, threshold_high) ==
  LET metric == MonitoringMetric(name, value, threshold_low, threshold_high, t)
      known == name \in DOMAIN m.metrics
      history == IF known THEN m.metrics[name] ELSE <<>>
      cutoff_time == t - m.config.metrics_retention_hours * Hour
      kept == NewerThan(Append(history, metric), cutoff_time)
  IN  [ m EXCEPT
          !.metric_names = IF known THEN @ ELSE Append(@, name),
          !.metrics = [ n \in DOMAIN m.metrics \cup {name} |->
                          IF n = name THEN kept ELSE m.metrics[n] ] ]

\* _create_alert at time t: the alert is appended to alerts and queued
_create_alert(m, t, level, component) ==
  LET alert == Alert(<<t, Len(m.alerts)>>, level, component, t)
  IN  [ m EXCEPT !.alerts = Append(@, alert),
                 !.alert_queue = Append(@, alert) ]

\* what one tick reads from its sources: <<>> stands for a source that is
\* absent (psutil not installed, no account registered, no timer recorded)
Readings ==
  [ cpu_usage_pct : {None, <<90>>},
    trading : {None, <<0, 50>>, <<-10, -5>>},
    timer_ms : {None, <<6000>>} ]

\* the name of the metric of a timer called api_error
TimerMetric == "timer_api_error_ms"

\* word in metric_name.lower(), for the metric names of this model
NameMentions(metric_name, word) ==
  /\ word = "error"
  /\ metric_name = TimerMetric

\* _collect_metrics at time t.  cpu_usage_pct stands for the system metrics,
\* total_return_pct and cash_balance_pct for the trading metrics, which are
\* all added the same way; reading.trading is <<return_pct, cash_pct>>.
_collect_metrics(m, t, reading) ==
  LET thresholds == m.config.thresholds
      m1 == IF reading.cpu_usage_pct = None THEN m
            ELSE _add_metric(m, t, "cpu_usage_pct", reading.cpu_usage_pct[1],
                             None, <<thresholds.max_cpu_usage_pct>>)
      m2 == IF reading.trading = None THEN m1
            ELSE LET return_pct == reading.trading[1]
                     cash_pct == reading.trading[2]
                     a1 == _add_metric(m1, t, "total_return_pct", return_pct,
                                       None, None)
                     a2 == IF return_pct < 0 - thresholds.max_drawdown_pct
                             THEN _create_alert(a1, t, AlertLevel.WARNING,
                                                "Portfolio")
                             ELSE a1
                 IN  _add_metric(a2, t, "cash_balance_pct", cash_pct,
                                 <<thresholds.min_available_balance_pct>>,
                                 None)
  IN  IF reading.timer_ms = None THEN m2
      ELSE _add_metric(m2, t, TimerMetric, reading.timer_ms[1],
                       None, <<thresholds.max_response_time_ms>>)

\* Python's truth value of an Optional[float]
Truthy(threshold) == threshold # None /\ threshold[1] # 0

\* _check_thresholds at time t, from the i-th metric name on
RECURSIVE CheckThresholdsFrom(_, _, _)
CheckThresholdsFrom(m, t, i) ==
  IF i > Len(m.metric_names) THEN m
  ELSE
    LET metric_name == m.metric_names[i]
        metric_list == m.metrics[metric_name]
    IN  IF metric_list = <<>> THEN CheckThresholdsFrom(m, t, i + 1)
        ELSE
          LET latest_metric == Last(metric_list)
              alert_level ==
                IF NameMentions(metric_name, "critical")
                     \/ latest_metric.value < 0
                  THEN AlertLevel.CRITICAL
                ELSE IF NameMentions(metric_name, "error")
                  THEN AlertLevel.ERROR
                ELSE AlertLevel.WARNING
              high == /\ Truthy(latest_metric.threshold_high)
                      /\ latest_metric.value > latest_metric.threshold_high[1]
              low == /\ Truthy(latest_metric.threshold_low)
                     /\ latest_metric.value < latest_metric.threshold_low[1]
          IN  IF ~is_within_bounds(latest_metric) /\ (high \/ low)
                THEN CheckThresholdsFrom(
                       _create_alert(m, t, alert_level, "Metrics"), t, i + 1)
                ELSE CheckThresholdsFrom(m, t, i + 1)

_check_thresholds(m, t) == CheckThresholdsFrom(m, t, 1)

\* _cleanup_old_data at time t
_cleanup_old_data(m, t) ==
  LET cutoff_time == t - m.config.alerts_retention_days * 24 * Hour
  IN  [m EXCEPT !.alerts = NewerThan(m.alerts, cutoff_time)]

\* the number of alerts of a level in a list
CountLevel(list, level) ==
  Cardinality({i \in DOMAIN list : list[i].level = level})

\* get_system_health with the precedence of its elif chain reversed
get_system_health_reversed(m, t) ==
  LET recent_alerts == NewerThan(m.alerts, t - Hour)
      alert_counts ==
        [ info |-> CountLevel(recent_alerts, AlertLevel.INFO),
          warning |-> CountLevel(recent_alerts, AlertLevel.WARNING),
          error |-> CountLevel(recent_alerts, AlertLevel.ERROR),
          critical |-> CountLevel(recent_alerts, AlertLevel.CRITICAL) ]
  IN  [ status |-> IF alert_counts.warning > 2 THEN "warning"
                   ELSE IF alert_counts.error > 0 THEN "error"
                   ELSE IF alert_counts.critical > 0 THEN "critical"
                   ELSE "healthy",
        alerts_count |-> alert_counts,
        monitoring |-> m.is_running ]

\* get_system_health at time t
get_system_health(m, t) ==
  LET recent_alerts == NewerThan(m.alerts, t - Hour)
      alert_counts ==
        [ info |-> CountLevel(recent_alerts, AlertLevel.INFO),
          warning |-> CountLevel(recent_alerts, AlertLevel.WARNING),
          error |-> CountLevel(recent_alerts, AlertLevel.ERROR),
          critical |-> CountLevel(recent_alerts, AlertLevel.CRITICAL) ]
  IN  [ status |-> IF alert_counts.critical > 0 THEN "critical"
                   ELSE IF alert_counts.error > 0 THEN "error"
                   ELSE IF alert_counts.warning > 2 THEN "warning"
                   ELSE "healthy",
        alerts_count |-> alert_counts,
        monitoring |-> m.is_running ]

\* the custom handlers: one that returns and one that raises an Exception
HandlerKinds == {"returns", "raises"}

\* the for loop of _handle_alert that leaves when a handler raises
\* (no try around the call): the next index, or 0 for leaving the loop
next_handler_unguarded(handlers, i) ==
  IF handlers[i] = "raises" THEN 0 ELSE i + 1

\* the for loop of _handle_alert after the call of handler i, whose
\* exception is caught and logged: the index of the handler to call next
next_handler(handlers, i) == i + 1

\* the for loop going on only while the monitor runs
more_handlers_while_running(m, i) ==
  m.is_running /\ i >= 1 /\ i <= Len(m.alert_handlers)

\* the for loop of _handle_alert: is there a handler left to call
more_handlers(m, i) == i >= 1 /\ i <= Len(m.alert_handlers)

(* ----------------------------- state ----------------------------------- *)
Threads == {"t1", "t2"}

VARIABLES
  acct,    \* the PaperTradingAccount
  rm,      \* acct.risk_manager
  last,    \* the last call made on them, how it ended, what the feed said
  pc,      \* where each thread stands inside emergency_stop()
  mon,     \* the LiveMonitor
  loops,   \* the threads start_monitoring() has started, and where each is
  now,     \* datetime.now(), in clock units
  calls    \* the calls made to the registered alert handlers, in order

At(place) == [at |-> place, step |-> 0]

\* the Ledger and Risk Manager side, the Live Monitor side
lvars == <<acct, rm, last, pc>>
mvars == <<mon, loops, now, calls>>
vars == <<acct, rm, last, pc, mon, loops, now, calls>>

Call(op, outcome) ==
  [ op |-> op, outcome |-> outcome, order_id |-> 0, approved |-> FALSE,
    reason |-> "", value |-> 0, feed |-> <<>>, args |-> <<>>,
    summary |-> <<>> ]

INITIAL_BALANCE == 10000
COMMISSION_RATE == 1

Init ==
  /\ acct = PaperTradingAccount(Money(INITIAL_BALANCE), COMMISSION_RATE)
  /\ rm = RiskManager(RiskLimits, Money(INITIAL_BALANCE))
  /\ last = Call("__init__", "returned")
  /\ pc = [t \in Threads |-> At("idle")]
  /\ mon = LiveMonitor(default_config)
  /\ loops = <<>>
  /\ now = 0
  /\ calls = <<>>

\* the same, the LiveMonitor constructed on one of the configurations
InitConfigured ==
  /\ acct = PaperTradingAccount(Money(INITIAL_BALANCE), COMMISSION_RATE)
  /\ rm = RiskManager(RiskLimits, Money(INITIAL_BALANCE))
  /\ last = Call("__init__", "returned")
  /\ pc = [t \in Threads |-> At("idle")]
  /\ mon \in {LiveMonitor(config) : config \in Configs}
  /\ loops = <<>>
  /\ now = 0
  /\ calls = <<>>

RmBounded(r) ==
  /\ Len(r.alerts) <= MaxAlerts
  /\ Len(r.snapshots) <= MaxSnapshots

(* --------------------- Ledger calls (caller thread) -------------------- *)
\* place_order with arguments from the given sets.  The price feed is asked
\* up to three times in one call (risk check, cost estimate, execution) and
\* may answer differently each time; an answer nobody asks for is not drawn.
PlaceOrder(maxOrders, symbols, types, sides, quantities) ==
  /\ Len(acct.orders) < maxOrders
  /\ \E symbol \in symbols, order_type \in types, side \in sides,
        quantity \in quantities :
       \E price \in PricesFor(order_type), p1 \in FeedPrices :
         \E p2 \in IF order_type = "MARKET" /\ side = "BUY"
                     THEN FeedPrices ELSE {p1},
            p3 \in IF order_type = "MARKET" THEN FeedPrices ELSE {p1} :
           LET res == place_order(acct, symbol, order_type, side, quantity,
                                  price, None, p1, p2, p3)
           IN  /\ acct' = res.acct
               /\ last' = [ Call("place_order", res.outcome) EXCEPT
                              !.order_id = res.order_id, !.feed = res.feed ]
  /\ UNCHANGED <<rm, pc, mvars>>

CancelOrder(maxOrders) ==
  /\ \E order_id \in 1..(maxOrders + 1) :
       LET res == cancel_order(acct, order_id)
       IN  /\ acct' = res.acct
           /\ last' = [ Call("cancel_order", "returned") EXCEPT
                          !.order_id = order_id, !.approved = res.result ]
  /\ UNCHANGED <<rm, pc, mvars>>

\* update_market_prices: the feed is asked once for every open position
UpdateMarketPrices ==
  /\ \E prices \in [DOMAIN acct.positions -> FeedPrices] :
       acct' = update_market_prices(acct, prices)
  /\ last' = Call("update_market_prices", "returned")
  /\ UNCHANGED <<rm, pc, mvars>>

GetAccountSummary ==
  /\ \E prices \in [DOMAIN acct.positions -> FeedPrices] :
       LET res == get_account_summary(acct, prices)
       IN  /\ acct' = res.acct
           /\ last' = [ Call("get_account_summary", "returned") EXCEPT
                          !.summary = res.summary ]
  /\ UNCHANGED <<rm, pc, mvars>>

(* ------------------- Risk Manager calls, one at a time ----------------- *)
EmergencyStop ==
  /\ rm' = emergency_stop(rm)
  /\ RmBounded(rm')
  /\ last' = Call("emergency_stop", "returned")
  /\ UNCHANGED <<acct, pc, mvars>>

\* emergency_stop() whose cascade steps end as the outcomes drawn say
EmergencyStopCascade ==
  /\ \E outcomes \in CascadeOutcomes :
       LET res == emergency_stop_with(rm, outcomes)
       IN  /\ rm' = res.rm
           /\ last' = [ Call("emergency_stop",
                             IF res.raised THEN "Exception" ELSE "returned")
                          EXCEPT !.args = outcomes ]
  /\ rm'.cascade[1] <= MaxStops
  /\ UNCHANGED <<acct, pc, mvars>>

ResetEmergencyStop ==
  /\ \E manual_override \in BOOLEAN :
       LET res == reset_emergency_stop(rm, manual_override)
       IN  /\ rm' = res.rm
           /\ last' = Call("reset_emergency_stop",
                           IF res.raised THEN "ValueError" ELSE "returned")
  /\ UNCHANGED <<acct, pc, mvars>>

ValidateTrade ==
  /\ \E quantity \in {1, 3}, price \in FeedPrices :
       LET res == validate_trade(rm, quantity, price)
       IN  last' = [ Call("validate_trade", "returned") EXCEPT
                       !.approved = res.approved, !.reason = res.reason,
                       !.value = res.value, !.args = <<quantity, price>> ]
  /\ UNCHANGED <<acct, rm, pc, mvars>>

\* start_monitoring: nothing to do when the loop already runs
StartMonitoring ==
  /\ rm' = IF rm.monitoring_active THEN rm
           ELSE [rm EXCEPT !.monitoring_active = TRUE]
  /\ last' = Call("start_monitoring", "returned")
  /\ UNCHANGED <<acct, pc, mvars>>

StopMonitoring ==
  /\ rm' = [rm EXCEPT !.monitoring_active = FALSE]
  /\ last' = Call("stop_monitoring", "returned")
  /\ UNCHANGED <<acct, pc, mvars>>

\* one iteration of the monitoring thread's loop
MonitorTick ==
  /\ rm.monitoring_active
  /\ rm' = _monitor_risk_loop(rm)
  /\ RmBounded(rm')
  /\ last' = Call("_monitor_risk_loop", "returned")
  /\ UNCHANGED <<acct, pc, mvars>>

\* the checks of the loop, called with metrics of the caller's choosing
DailyPnls == {Money(0), Money(-100), Money(-250)}
Volatilities == {15, 45, 60}

CheckPortfolioRisk ==
  /\ \E daily_pnl \in DailyPnls :
       rm' = _check_portfolio_risk(
               rm, [get_portfolio_metrics(rm) EXCEPT !.daily_pnl = daily_pnl])
  /\ RmBounded(rm')
  /\ last' = Call("_check_portfolio_risk", "returned")
  /\ UNCHANGED <<acct, pc, mvars>>

CheckVolatilityRisk ==
  /\ \E volatility \in Volatilities :
       rm' = _check_volatility_risk(
               rm, [get_portfolio_metrics(rm) EXCEPT !.volatility = volatility])
  /\ RmBounded(rm')
  /\ last' = Call("_check_volatility_risk", "returned")
  /\ UNCHANGED <<acct, pc, mvars>>

\* _check_portfolio_risk on the day's figures when the portfolio, worth
\* rm.portfolio_value at the start, is now worth current
CurrentValues ==
  { Money(10000), Money(9900), Money(9800), Money(9750), Money(9500),
    Money(9200), Money(8500), Money(7000) }

CheckDrawdown ==
  /\ \E current \in CurrentValues :
       /\ rm' = _check_portfolio_risk(
                  rm, [get_portfolio_metrics(rm) EXCEPT
                         !.daily_pnl = current - rm.portfolio_value])
       /\ last' = [ Call("_check_portfolio_risk", "returned") EXCEPT
                      !.args = <<current>> ]
  /\ RmBounded(rm')
  /\ UNCHANGED <<acct, pc, mvars>>

\* calculate_position_size on the account's Risk Manager
AccountValues == {Money(10000), Money(50000)}
RisksPerTrade == {1, 2, 3}

CalculatePositionSize ==
  /\ \E account_value \in AccountValues, risk_per_trade \in RisksPerTrade :
       last' = [ Call("calculate_position_size", "returned") EXCEPT
                   !.value = calculate_position_size(rm, account_value,
                                                     risk_per_trade),
                   !.args = <<account_value, risk_per_trade>> ]
  /\ UNCHANGED <<acct, rm, pc, mvars>>

(* ------------------------ Live Monitor calls --------------------------- *)
\* a thread running _monitoring_loop, one running _alert_processing_loop
MonitoringLoop == [kind |-> "metrics", at |-> "while", alert |-> None, i |-> 0]
AlertProcessingLoop ==
  [kind |-> "alerts", at |-> "while", alert |-> None, i |-> 0]

\* add_alert_handler
LmAddAlertHandler ==
  /\ Len(mon.alert_handlers) < MaxHandlers
  /\ \E handler \in HandlerKinds :
       mon' = [mon EXCEPT !.alert_handlers = Append(@, handler)]
  /\ UNCHANGED <<lvars, loops, now, calls>>

\* start_monitoring: returns at once when the monitor runs already,
\* otherwise sets the flag and starts the two threads
StartMonitoringUpTo(maxStarts) ==
  /\ IF mon.is_running
       THEN UNCHANGED <<mon, loops>>
       ELSE /\ Len(loops) < 2 * maxStarts
            /\ mon' = [mon EXCEPT !.is_running = TRUE]
            /\ loops' = loops \o <<MonitoringLoop, AlertProcessingLoop>>
  /\ UNCHANGED <<lvars, now, calls>>

LmStartMonitoring == StartMonitoringUpTo(MaxStarts)

\* start_monitoring, called again after a stop_monitoring
LmRestartMonitoring == StartMonitoringUpTo(MaxRuns)

\* add_alert_handler, called before monitoring is first started
LmRegisterHandler ==
  /\ loops = <<>>
  /\ LmAddAlertHandler

\* stop_monitoring: clears the flag; the join of the monitoring thread that
\* follows gives up after its timeout and changes nothing
LmStopMonitoring ==
  /\ mon' = [mon EXCEPT !.is_running = FALSE]
  /\ UNCHANGED <<lvars, loops, now, calls>>

Goto(t, place) == [loops EXCEPT ![t].at = place]

\* _monitoring_loop: while self.is_running (a loop that has made MaxTicks
\* iterations starts no further one)
MlWhile(t) ==
  /\ loops[t].kind = "metrics"
  /\ loops[t].at = "while"
  /\ mon.is_running => loops[t].i < MaxTicks
  /\ loops' = Goto(t, IF mon.is_running THEN "_collect_metrics" ELSE "exited")
  /\ UNCHANGED <<lvars, mon, now, calls>>

MlCollect(t, readings) ==
  /\ loops[t].kind = "metrics"
  /\ loops[t].at = "_collect_metrics"
  /\ \E reading \in readings : mon' = _collect_metrics(mon, now, reading)
  /\ loops' = [loops EXCEPT ![t].at = "_check_thresholds", ![t].i = @ + 1]
  /\ UNCHANGED <<lvars, now, calls>>

MlCheck(t) ==
  /\ loops[t].kind = "metrics"
  /\ loops[t].at = "_check_thresholds"
  /\ mon' = _check_thresholds(mon, now)
  /\ loops' = Goto(t, "_cleanup_old_data")
  /\ UNCHANGED <<lvars, now, calls>>

MlCleanup(t) ==
  /\ loops[t].kind = "metrics"
  /\ loops[t].at = "_cleanup_old_data"
  /\ mon' = _cleanup_old_data(mon, now)
  /\ loops' = Goto(t, "sleep")
  /\ UNCHANGED <<lvars, now, calls>>

MlSleep(t) ==
  /\ loops[t].kind = "metrics"
  /\ loops[t].at = "sleep"
  /\ loops' = Goto(t, "while")
  /\ UNCHANGED <<lvars, mon, now, calls>>

\* _alert_processing_loop: while self.is_running
AlWhile(t) ==
  /\ loops[t].kind = "alerts"
  /\ loops[t].at = "while"
  /\ loops' = Goto(t, IF mon.is_running THEN "get" ELSE "exited")
  /\ UNCHANGED <<lvars, mon, now, calls>>

\* alert_queue.get(timeout=1): the oldest alert, or queue.Empty and continue
AlGet(t) ==
  /\ loops[t].kind = "alerts"
  /\ loops[t].at = "get"
  /\ IF mon.alert_queue = <<>>
       THEN /\ loops' = Goto(t, "while")
            /\ UNCHANGED mon
       ELSE /\ mon' = [mon EXCEPT !.alert_queue = Tail(@)]
            /\ loops' = [loops EXCEPT ![t].at = "_handle_alert",
                                      ![t].alert = <<Head(mon.alert_queue)>>,
                                      ![t].i = 1]
  /\ UNCHANGED <<lvars, now, calls>>

\* _handle_alert: the next round of for handler in self.alert_handlers; the
\* handler is called, and what it raises is caught and logged
AlHandler(t) ==
  /\ loops[t].kind = "alerts"
  /\ loops[t].at = "_handle_alert"
  /\ IF more_handlers(mon, loops[t].i)
       THEN /\ calls' = Append(calls,
                          [ handler |-> loops[t].i,
                            alert |-> loops[t].alert[1].alert_id,
                            raised |-> mon.alert_handlers[loops[t].i] = "raises",
                            is_running |-> mon.is_running ])
            /\ loops' = [loops EXCEPT
                           ![t].i = next_handler(mon.alert_handlers, loops[t].i)]
       ELSE /\ loops' = [loops EXCEPT ![t].at = "while", ![t].alert = None,
                                      ![t].i = 0]
            /\ UNCHANGED calls
  /\ UNCHANGED <<lvars, mon, now>>

LoopStep(t, readings) ==
  /\ t \in DOMAIN loops
  /\ \/ MlWhile(t)
     \/ MlCollect(t, readings)
     \/ MlCheck(t)
     \/ MlCleanup(t)
     \/ MlSleep(t)
     \/ AlWhile(t)
     \/ AlGet(t)
     \/ AlHandler(t)

\* time passes
AdvanceClock ==
  /\ now < MaxTime
  /\ now' = now + 1
  /\ UNCHANGED <<lvars, mon, loops, calls>>

\* _create_alert called by a check of the monitor
CreateAlert ==
  /\ Len(mon.alerts) < MaxMonAlerts
  /\ \E level \in {AlertLevel.INFO, AlertLevel.WARNING, AlertLevel.ERROR,
                   AlertLevel.CRITICAL} :
       mon' = _create_alert(mon, now, level, "Metrics")
  /\ UNCHANGED <<lvars, loops, now, calls>>

CleanupOldData ==
  /\ mon' = _cleanup_old_data(mon, now)
  /\ UNCHANGED <<lvars, loops, now, calls>>

\* one iteration of _monitoring_loop, made without interruption
MonitoringTick ==
  /\ \E reading \in Readings :
       mon' = _cleanup_old_data(
                _check_thresholds(_collect_metrics(mon, now, reading), now),
                now)
  /\ Len(mon'.alerts) <= MaxMonAlerts
  /\ \A n \in DOMAIN mon'.metrics : Len(mon'.metrics[n]) <= MaxSamples
  /\ last' = Call("_monitoring_loop", "returned")
  /\ UNCHANGED <<acct, rm, pc, loops, now, calls>>

GetSystemHealth ==
  /\ last' = [ Call("get_system_health", "returned") EXCEPT
                 !.summary = get_system_health(mon, now) ]
  /\ UNCHANGED <<acct, rm, pc, mvars>>

(* ------------------------- specifications ------------------------------ *)
\* the account and its Risk Manager together, calls one at a time
Next ==
  \/ PlaceOrder(MaxSysOrders, SymbolInputs, {"MARKET", "LIMIT"}, OrderSides,
                Quantities)
  \/ CancelOrder(MaxSysOrders)
  \/ EmergencyStop
  \/ ResetEmergencyStop
  \/ ValidateTrade
  \/ StartMonitoring
  \/ StopMonitoring
  \/ MonitorTick

Spec == Init /\ [][Next]_vars

\* the Ledger alone, every kind of order
NextLedger ==
  \/ PlaceOrder(MaxOrders, SymbolInputs, {"MARKET", "LIMIT"}, OrderSides,
                Quantities)
  \/ CancelOrder(MaxOrders)

SpecLedger == Init /\ [][NextLedger]_vars

\* the Ledger alone, a caller who places well-formed market orders only
NextTrades ==
  PlaceOrder(MaxTrades, {Str(BTC)}, {"MARKET"}, OrderSides, Quantities \ {-1})

SpecTrades == Init /\ [][NextTrades]_vars

\* the Ledger alone, a caller who only buys at market
NextBuys ==
  PlaceOrder(MaxBuys, {Str(BTC)}, {"MARKET"}, {"BUY"}, {1, 2, 3})

SpecBuys == Init /\ [][NextBuys]_vars

\* the Ledger alone: orders on one symbol, marks refreshed, summaries taken
NextMarks ==
  \/ PlaceOrder(MaxMarkOrders, {Str(BTC)}, {"MARKET", "LIMIT"}, OrderSides,
                {0, 1, 2})
  \/ CancelOrder(MaxMarkOrders)
  \/ UpdateMarketPrices
  \/ GetAccountSummary

SpecMarks == Init /\ [][NextMarks]_vars

\* the Risk Manager alone, calls one at a time
NextRisk ==
  \/ EmergencyStop
  \/ ResetEmergencyStop
  \/ ValidateTrade
  \/ StartMonitoring
  \/ StopMonitoring
  \/ MonitorTick
  \/ CheckPortfolioRisk
  \/ CheckVolatilityRisk

SpecRisk == Init /\ [][NextRisk]_vars

\* the Risk Manager alone, a caller reporting the day's drawdown
NextDrawdown ==
  \/ CheckDrawdown
  \/ ResetEmergencyStop
  \/ ValidateTrade

SpecDrawdown == Init /\ [][NextDrawdown]_vars

\* an account that trades at market while positions are sized by its
\* Risk Manager
NextSizing ==
  \/ PlaceOrder(MaxTrades, {Str(BTC)}, {"MARKET"}, OrderSides, {1, 2, 3})
  \/ CalculatePositionSize

SpecSizing == Init /\ [][NextSizing]_vars

\* the Risk Manager with cascade steps that may raise
NextCascade ==
  \/ EmergencyStopCascade
  \/ ResetEmergencyStop
  \/ ValidateTrade

SpecCascade == Init /\ [][NextCascade]_vars

\* the Live Monitor: handlers registered, monitoring started and stopped,
\* the two loops running; a tick finds everything in bounds, or a losing
\* account short of cash, or a busy processor and a slow timer
MonitorReadings ==
  { [cpu_usage_pct |-> None, trading |-> None, timer_ms |-> None],
    [cpu_usage_pct |-> None, trading |-> <<-10, -5>>, timer_ms |-> None],
    [cpu_usage_pct |-> <<90>>, trading |-> <<0, 50>>, timer_ms |-> <<6000>>] }

NextMonitor ==
  \/ LmAddAlertHandler
  \/ LmStartMonitoring
  \/ LmStopMonitoring
  \/ \E t \in DOMAIN loops : LoopStep(t, MonitorReadings)

SpecMonitor == Init /\ [][NextMonitor]_vars

\* the two loops are threads of their own, so a loop that can take its next
\* step takes it in the end
SpecMonitorFair ==
  /\ SpecMonitor
  /\ \A t \in 1..(2 * MaxStarts) : WF_vars(LoopStep(t, MonitorReadings))

\* the Live Monitor stopped and started again: handlers are registered
\* first, and every tick finds a busy processor and a slow timer
RestartReadings ==
  { [cpu_usage_pct |-> <<90>>, trading |-> None, timer_ms |-> <<6000>>] }

NextRestart ==
  \/ LmRegisterHandler
  \/ LmRestartMonitoring
  \/ LmStopMonitoring
  \/ \E t \in DOMAIN loops : LoopStep(t, RestartReadings)

SpecRestart == Init /\ [][NextRestart]_vars

\* the Live Monitor on any of the configurations
SpecConfigured == InitConfigured /\ [][NextMonitor]_vars

\* the metric histories as ticks are made and time passes
NextRetention ==
  \/ MonitoringTick
  \/ AdvanceClock

SpecRetention == InitConfigured /\ [][NextRetention]_vars

\* the Live Monitor's alert log as time passes
NextHealth ==
  \/ CreateAlert
  \/ CleanupOldData
  \/ AdvanceClock
  \/ GetSystemHealth

SpecHealth == Init /\ [][NextHealth]_vars

(* ----------------- place_order() from two threads ---------------------- *)
\* Two threads each place one market order for BTC on the same account.
\* place_order and the methods it calls take no lock.  A thread runs the
\* checks and stores its order (lines 246-289), and the interpreter may then
\* switch threads, at the latest in the logging call of line 289, before
\* the thread goes on to _execute_order (line 293).  Switches inside
\* _execute_order are left out: each of the two parts runs as one step.
ThreadQuantities == {1, 2}

\* an order placed by the caller before the threads start
SeedOrder ==
  /\ \A t \in Threads : pc[t].at = "idle"
  /\ PlaceOrder(MaxSeedOrders, {Str(BTC)}, {"MARKET"}, {"BUY"},
                ThreadQuantities)

\* lines 246-289 in thread t; base keeps the account as the call found it
PoChecks(t) ==
  /\ pc[t].at = "idle"
  /\ \E side \in OrderSides, quantity \in ThreadQuantities,
        p1 \in FeedPrices :
       \E p2 \in IF side = "BUY" THEN FeedPrices ELSE {p1} :
         LET res == place_order_checks(acct, Str(BTC), "MARKET", side,
                                       quantity, None, None, p1, p2)
         IN  /\ acct' = res.acct
             /\ pc' = [pc EXCEPT ![t] =
                         [ at |-> IF res.outcome = "placed" THEN "line_293"
                                                            ELSE "returned",
                           step |-> res.order_id, base |-> acct ]]
  /\ UNCHANGED <<rm, last, mvars>>

\* line 293 in thread t: _execute_order, then place_order returns
PoExecute(t) ==
  /\ pc[t].at = "line_293"
  /\ \E p3 \in FeedPrices :
       LET ex == _execute_order(acct, pc[t].step, p3)
       IN  /\ acct' = ex.acct
           /\ pc' = [pc EXCEPT ![t].at = IF ex.raised THEN "raised"
                                                      ELSE "returned"]
  /\ UNCHANGED <<rm, last, mvars>>

NextPlacing ==
  \/ SeedOrder
  \/ \E t \in Threads :
       \/ PoChecks(t)
       \/ PoExecute(t)

SpecPlacing == Init /\ [][NextPlacing]_vars

(* ------------- emergency_stop(), statement by statement ---------------- *)
\* Two threads call emergency_stop() on the same RiskManager.  The method
\* takes no lock, so the threads interleave between its statements: the
\* interpreter may switch threads between the read of the flag on line 314
\* and the write on line 317.
EsCall(t) ==
  /\ pc[t].at = "idle"
  /\ pc' = [pc EXCEPT ![t] = At("line_314")]
  /\ UNCHANGED <<acct, rm, last, mvars>>

\* line 314: if self.emergency_stop_triggered: return
EsCheck(t) ==
  /\ pc[t].at = "line_314"
  /\ pc' = [pc EXCEPT ![t] = IF rm.emergency_stop_triggered
                               THEN At("idle") ELSE At("line_317")]
  /\ UNCHANGED <<acct, rm, last, mvars>>

\* line 317: self.emergency_stop_triggered = True
EsTrigger(t) ==
  /\ pc[t].at = "line_317"
  /\ rm' = EsSetTriggered(rm)
  /\ pc' = [pc EXCEPT ![t] = At("line_318")]
  /\ UNCHANGED <<acct, last, mvars>>

\* line 318: self.is_trading_halted = True
EsHalt(t) ==
  /\ pc[t].at = "line_318"
  /\ rm' = EsSetHalted(rm)
  /\ pc' = [pc EXCEPT ![t] = [at |-> "cascade", step |-> 1]]
  /\ UNCHANGED <<acct, last, mvars>>

\* lines 324-339: the next cascade call, then return after the last one
EsCascade(t) ==
  /\ pc[t].at = "cascade"
  /\ rm' = CascadeStep(rm, pc[t].step)
  /\ pc' = [pc EXCEPT ![t] = IF pc[t].step = Len(CascadeSteps)
                               THEN At("idle")
                               ELSE [at |-> "cascade", step |-> pc[t].step + 1]]
  /\ UNCHANGED <<acct, last, mvars>>

NextConc ==
  \E t \in Threads :
    \/ EsCall(t)
    \/ EsCheck(t)
    \/ EsTrigger(t)
    \/ EsHalt(t)
    \/ EsCascade(t)

SpecConc == Init /\ [][NextConc]_vars

(* -------- emergency_stop() and reset_emergency_stop() together --------- *)
\* Threads call emergency_stop() and reset_emergency_stop() on the same
\* RiskManager; neither takes a lock, and each statement is a step.
EsPlaces == {"line_314", "line_317", "line_318", "cascade"}

\* the cascades that have run to their end or may still be run by a call
\* in progress
StopsBegun ==
  rm.cascade[Len(CascadeSteps)]
    + Cardinality({t \in Threads : pc[t].at \in EsPlaces})

\* emergency_stop() is called (no more than MaxStops cascades are run)
FlStopCall(t) ==
  /\ StopsBegun < MaxStops
  /\ EsCall(t)

\* reset_emergency_stop(manual_override): lines 469-470 raise ValueError
\* without the override
RsCall(t) ==
  /\ pc[t].at = "idle"
  /\ \E manual_override \in BOOLEAN :
       pc' = [pc EXCEPT ![t] = IF manual_override THEN At("line_472")
                                                  ELSE At("idle")]
  /\ UNCHANGED <<acct, rm, last, mvars>>

\* line 472: self.emergency_stop_triggered = False
RsClearTriggered(t) ==
  /\ pc[t].at = "line_472"
  /\ rm' = [rm EXCEPT !.emergency_stop_triggered = FALSE]
  /\ pc' = [pc EXCEPT ![t] = At("line_473")]
  /\ UNCHANGED <<acct, last, mvars>>

\* line 473: self.is_trading_halted = False, then the method returns
RsClearHalted(t) ==
  /\ pc[t].at = "line_473"
  /\ rm' = [rm EXCEPT !.is_trading_halted = FALSE]
  /\ pc' = [pc EXCEPT ![t] = At("idle")]
  /\ UNCHANGED <<acct, last, mvars>>

NextFlags ==
  \E t \in Threads :
    \/ FlStopCall(t)
    \/ EsCheck(t)
    \/ EsTrigger(t)
    \/ EsHalt(t)
    \/ EsCascade(t)
    \/ RsCall(t)
    \/ RsClearTriggered(t)
    \/ RsClearHalted(t)

SpecFlags == Init /\ [][NextFlags]_vars

(* ============================ properties =============================== *)
Halted(r) == r.is_trading_halted \/ r.emergency_stop_triggered

\* a step that is a place_order call which recorded an order
OrderRecorded ==
  /\ last'.op = "place_order"
  /\ Len(acct'.orders) = Len(acct.orders) + 1

HaltedReason == "Trading is currently halted due to risk controls"

\* C1: while the account's Risk Manager has is_trading_halted or
\* emergency_stop_triggered set, every place_order that records an order
\* leaves it REJECTED with cash and positions unchanged, and every
\* validate_trade is refused with one and the same reason string.
C1_HaltedTradingRejects ==
  [][ Halted(rm) =>
        /\ OrderRecorded =>
             /\ Last(acct'.orders).status = "REJECTED"
             /\ acct'.cash_balance = acct.cash_balance
             /\ acct'.positions = acct.positions
        /\ last'.op = "validate_trade" =>
             /\ ~last'.approved
             /\ last'.reason = HaltedReason
    ]_vars

C3_OneThreadRunsCascade ==
  /\ \A i \in DOMAIN rm.cascade : rm.cascade[i] <= 1
  /\ Len(rm.snapshots) <= 1

\* C4: once emergency_stop_triggered is set it stays set until
\* reset_emergency_stop(manual_override=True) returns, validate_trade is
\* refused meanwhile, and a reset without the override raises and leaves
\* both flags as they were.
C4_StopIsTerminal ==
  [][ /\ rm.emergency_stop_triggered =>
           /\ \/ rm'.emergency_stop_triggered
              \/ (last'.op = "reset_emergency_stop"
                    /\ last'.outcome = "returned")
           /\ last'.op = "validate_trade" => ~last'.approved
      /\ (last'.op = "reset_emergency_stop" /\ last'.outcome = "ValueError") =>
           /\ rm'.emergency_stop_triggered = rm.emergency_stop_triggered
           /\ rm'.is_trading_halted = rm.is_trading_halted
    ]_vars

\* a reset without the override was attempted on a triggered manager
C4_Witness ==
  /\ rm.emergency_stop_triggered
  /\ rm.is_trading_halted
  /\ last.op = "reset_emergency_stop"
  /\ last.outcome = "ValueError"

\* C5: when emergency_stop() has run on the account's Risk Manager, the
\* account holds no PENDING order and no open position.
C5_StopFlattensAccount ==
  [][ (~rm.emergency_stop_triggered /\ rm'.emergency_stop_triggered) =>
        /\ \A i \in DOMAIN acct'.orders : acct'.orders[i].status # "PENDING"
        /\ DOMAIN acct'.positions = {}
    ]_vars

\* C6: a market buy whose cost plus commission, at every price the feed
\* returned, does not exceed the cash held is FILLED in the same call; on a
\* fresh account of 10,000 buying 0.1 BTC with the feed at 45,000 the cash
\* becomes 10000 - 0.1*45000*(1+r) and the one position is 0.1 BTC at 45,000.
C6_MarketBuyWithinCashFills ==
  [][ OrderRecorded =>
        LET o == Last(acct'.orders)
            CostAt(p) == o.quantity * p
                           + Commission(o.quantity * p, acct.commission_rate)
        IN  ( /\ o.order_type = "MARKET"
              /\ o.side = "BUY"
              /\ \A i \in DOMAIN last'.feed :
                   CostAt(last'.feed[i]) <= acct.cash_balance ) =>
              /\ o.status = "FILLED"
              /\ ( /\ acct.orders = <<>>
                   /\ o.symbol = BTC
                   /\ o.quantity = 1
                   /\ \A i \in DOMAIN last'.feed :
                        last'.feed[i] = Price(45000) ) =>
                   /\ acct'.cash_balance
                        = Money(INITIAL_BALANCE) - CostAt(Price(45000))
                   /\ acct'.positions
                        = (BTC :> Position(1, Price(45000), Price(45000)))
    ]_vars

\* the order o placed on account a fails the risk check, the buying-power
\* check or the held-quantity check, given the feed's answers
FailsCheck(a, o, feed) ==
  \/ ~_validate_order_risk(a, o, feed[1])
  \/ /\ o.side = "BUY"
     /\ _estimate_order_cost(a, o, IF Len(feed) >= 2 THEN feed[2] ELSE feed[1])
          > a.cash_balance
  \/ /\ o.side = "SELL"
     /\ \/ o.symbol \notin DOMAIN a.positions
        \/ a.positions[o.symbol].quantity < o.quantity

\* C7: a place_order call with well-formed symbol and quantity that fails
\* its risk, buying-power or held-quantity check returns the order id, the
\* order is stored REJECTED, and nothing else of the account changes.
C7_RejectionLeavesAccountAlone ==
  [][ OrderRecorded =>
        LET o == Last(acct'.orders)
        IN  FailsCheck(acct, o, last'.feed) =>
              /\ last'.outcome = "returned"
              /\ last'.order_id = Len(acct'.orders)
              /\ o.status = "REJECTED"
              /\ acct' = [acct EXCEPT !.orders = Append(acct.orders, o)]
    ]_vars

\* a market buy passed the risk check and was rejected for buying power
C7_Witness ==
  /\ last.op = "place_order"
  /\ last.outcome = "returned"
  /\ Len(last.feed) = 2
  /\ acct.orders # <<>>
  /\ Last(acct.orders).status = "REJECTED"
  /\ Last(acct.orders).side = "BUY"
  /\ Last(acct.orders).order_type = "MARKET"
  /\ acct.cash_balance = Money(INITIAL_BALANCE)

\* C8: place_order with a malformed symbol, a quantity that is zero or
\* negative, or a limit price that is negative raises ValidationError,
\* records no order and leaves the account unchanged; so every recorded
\* order has a positive quantity and no negative price.
C8_MalformedOrderRaises ==
  [][ last'.op = "place_order" =>
        /\ Len(acct'.orders) > Len(acct.orders) =>
             /\ Last(acct'.orders).quantity > 0
             /\ Last(acct'.orders).price >= 0
        /\ last'.outcome = "ValidationError" => acct' = acct
    ]_vars

FilledOrders(a, symbol, side) ==
  { i \in DOMAIN a.orders :
      /\ a.orders[i].status = "FILLED"
      /\ a.orders[i].symbol = symbol
      /\ a.orders[i].side = side }

\* C9: after filled buys on one symbol and no sell, the position's quantity
\* is the sum of the fills' quantities and its average_price is the sum of
\* quantity * fill price divided by that sum.
C9_AverageIsVolumeWeighted ==
  \A symbol \in DOMAIN acct.positions :
    LET buys == FilledOrders(acct, symbol, "BUY")
        total_quantity ==
          SumOver([i \in buys |-> acct.orders[i].filled_quantity], buys)
        total_cost ==
          SumOver([i \in buys |-> acct.orders[i].filled_quantity
                                    * acct.orders[i].filled_price], buys)
    IN  (FilledOrders(acct, symbol, "SELL") = {} /\ total_quantity > 0) =>
          /\ acct.positions[symbol].quantity = total_quantity
          /\ acct.positions[symbol].average_price
               = DivRound(total_cost, total_quantity)

\* C10: a filled sell of q at p against a position with average price A
\* appends a TradeRecord with pnl (p - A) * q, lowers the position by q
\* (removing it at zero), credits cash with q * p less commission and
\* leaves the average price as it was.
C10_SellRealisesAgainstAverage ==
  [][ ( /\ OrderRecorded
        /\ Last(acct'.orders).side = "SELL"
        /\ Last(acct'.orders).status = "FILLED" ) =>
        LET o == Last(acct'.orders)
            q == o.quantity
            p == o.filled_price
        IN  /\ o.symbol \in DOMAIN acct.positions
            /\ Len(acct'.trade_history) = Len(acct.trade_history) + 1
            /\ LET before == acct.positions[o.symbol]
                   t == Last(acct'.trade_history)
               IN  /\ t.order_id = Len(acct'.orders)
                   /\ t.quantity = q
                   /\ t.price = p
                   /\ t.pnl = (p - before.average_price) * q
                   /\ IF before.quantity = q
                        THEN o.symbol \notin DOMAIN acct'.positions
                        ELSE /\ o.symbol \in DOMAIN acct'.positions
                             /\ acct'.positions[o.symbol].quantity
                                  = before.quantity - q
                             /\ acct'.positions[o.symbol].average_price
                                  = before.average_price
                   /\ acct'.cash_balance
                        = acct.cash_balance
                            + (q * p - Commission(q * p, acct.commission_rate))
    ]_vars

\* part of a position was sold at a price other than its average price
C10_Witness ==
  /\ last.op = "place_order"
  /\ acct.orders # <<>>
  /\ Last(acct.orders).side = "SELL"
  /\ Last(acct.orders).status = "FILLED"
  /\ acct.trade_history # <<>>
  /\ Last(acct.trade_history).pnl # 0
  /\ BTC \in DOMAIN acct.positions
  /\ acct.positions[BTC].average_price # Last(acct.orders).filled_price

\* the sum over the open positions of quantity * current mark price
PositionsValue(a) ==
  SumOver([s \in DOMAIN a.positions |->
             a.positions[s].quantity * a.positions[s].current_price],
          DOMAIN a.positions)

\* C11: in every state reached by place_order, cancel_order and
\* update_market_prices calls, every entry of positions has a quantity
\* strictly greater than 0.
C11_PositionsArePositive ==
  \A s \in DOMAIN acct.positions : acct.positions[s].quantity > 0

\* C12 as stated: the summary's total_value is equal to cash_balance plus the
\* sum over the open positions of quantity * mark price, and its
\* positions_value is equal to that sum.
C12_SummaryTotalIsExact ==
  last.op = "get_account_summary" =>
    /\ FloatEqualsDecimal(last.summary.total_value,
                          acct.cash_balance + PositionsValue(acct))
    /\ FloatEqualsDecimal(last.summary.positions_value, PositionsValue(acct))

\* C12 as amended: the summary's total_value is the float nearest to
\* cash_balance plus the sum over the open positions of quantity * mark
\* price, with the marks as the summary's own refresh left them, and its
\* positions_value is the float nearest to that sum.
C12_SummaryTotalIsNearestFloat ==
  last.op = "get_account_summary" =>
    /\ last.summary.total_value
         = float(acct.cash_balance + PositionsValue(acct), MScale)
    /\ last.summary.positions_value = float(PositionsValue(acct), MScale)

\* a summary of an account whose position is marked away from its average
\* price and whose total is not a binary fraction
C12_Witness ==
  /\ last.op = "get_account_summary"
  /\ BTC \in DOMAIN acct.positions
  /\ acct.positions[BTC].quantity > 0
  /\ acct.positions[BTC].current_price # acct.positions[BTC].average_price
  /\ ~last.summary.total_value.exact

\* C13: the status of an order changes only from PENDING, and then to
\* FILLED, CANCELLED or REJECTED; cancel_order returns True and sets
\* CANCELLED exactly when the order is PENDING, and otherwise returns False
\* and changes nothing; filled_quantity never exceeds quantity.
C13_StatusMovesOneWay ==
  [][ /\ \A i \in DOMAIN acct.orders :
           /\ i \in DOMAIN acct'.orders
           /\ acct'.orders[i].status # acct.orders[i].status =>
                /\ acct.orders[i].status = "PENDING"
                /\ acct'.orders[i].status \in {"FILLED", "CANCELLED", "REJECTED"}
      /\ \A i \in DOMAIN acct'.orders :
           /\ acct'.orders[i].filled_quantity <= acct'.orders[i].quantity
           /\ i \notin DOMAIN acct.orders =>
                acct'.orders[i].status \in {"PENDING", "FILLED", "REJECTED"}
      /\ last'.op = "cancel_order" =>
           LET id == last'.order_id
               pending == /\ id \in DOMAIN acct.orders
                          /\ acct.orders[id].status = "PENDING"
           IN  /\ last'.approved = pending
               /\ IF pending
                    THEN acct' = [acct EXCEPT !.orders[id].status = "CANCELLED"]
                    ELSE acct' = acct
    ]_vars

\* cancel_order was refused for an order that is FILLED
C13_Witness ==
  /\ last.op = "cancel_order"
  /\ ~last.approved
  /\ last.order_id \in DOMAIN acct.orders
  /\ acct.orders[last.order_id].status = "FILLED"

\* C14: a trade whose value exceeds the position-size ceiling
\* (max_position_size of the portfolio value) is not approved by the Risk
\* Manager's validation, and the reason returned mentions "position limit".
C14_OversizedOrderNamesPositionLimit ==
  [][ ( /\ last'.op = "validate_trade"
        /\ ~Halted(rm)
        /\ last'.args[1] * last'.args[2]
             > PctOf(rm.portfolio_value, rm.limits.max_position_size) ) =>
        /\ ~last'.approved
        /\ Contains(Lower(ReasonText(last'.reason)),
                    << "p","o","s","i","t","i","o","n"," ",
                       "l","i","m","i","t" >>)
    ]_vars

\* the drawdown from the initial value V0 to current reaches pct percent
DrawdownReaches(V0, current, pct) == V0 - current >= (pct * V0 + 99) \div 100

\* the emergency alerts that name the drawdown
DrawdownEmergencies(r) ==
  { i \in DOMAIN r.alerts : /\ r.alerts[i].level = "EMERGENCY"
                            /\ r.alerts[i].event_type = "PORTFOLIO_DRAWDOWN" }

\* C15: the check of current against the initial value V0 declares an
\* emergency stop, naming the drawdown, when the drawdown (V0 - current) / V0
\* reaches the emergency threshold of 8%, and declares none below it.
C15_EmergencyAtEightPercent ==
  [][ (last'.op = "_check_portfolio_risk" /\ ~rm.emergency_stop_triggered) =>
        IF DrawdownReaches(rm.portfolio_value, last'.args[1],
                           risk_thresholds.portfolio_drawdown.emergency)
          THEN /\ rm'.emergency_stop_triggered
               /\ DrawdownEmergencies(rm') # DrawdownEmergencies(rm)
          ELSE /\ ~rm'.emergency_stop_triggered
               /\ DrawdownEmergencies(rm') = DrawdownEmergencies(rm)
    ]_vars

\* the risk level a check of the drawdown arrives at: the level of the alert
\* it raises, LOW when it raises none
LevelAt(r, current) ==
  LET r1 == _check_portfolio_risk(
              r, [get_portfolio_metrics(r) EXCEPT
                    !.daily_pnl = current - r.portfolio_value])
  IN  IF Len(r1.alerts) > Len(r.alerts) THEN Last(r1.alerts).level ELSE "LOW"

\* RiskLevel in order; MEDIUM and HIGH of the specification are WARNING and
\* CRITICAL
Severity(level) ==
  CASE level = "LOW" -> 0
    [] level = "WARNING" -> 1
    [] level = "CRITICAL" -> 2
    [] level = "EMERGENCY" -> 3

\* C16: the risk level recomputed from the drawdown against the initial
\* value never falls as the drawdown grows, and with the initial value
\* 100,000 it is LOW at 98,000, MEDIUM at 95,000 and HIGH at 85,000 (here
\* 10,000 and 9,800, 9,500, 8,500).
C16_LevelFollowsDrawdown ==
  [][ last'.op = "_check_portfolio_risk" =>
        /\ \A c1, c2 \in CurrentValues :
             c1 >= c2 => Severity(LevelAt(rm, c1)) <= Severity(LevelAt(rm, c2))
        /\ LET current == last'.args[1]
               level == IF Len(rm'.alerts) > Len(rm.alerts)
                          THEN Last(rm'.alerts).level ELSE "LOW"
           IN  /\ current = Money(9800) => level = "LOW"
               /\ current = Money(9500) => level = "WARNING"
               /\ current = Money(8500) => level = "CRITICAL"
    ]_vars

\* the loss the account has realised on its trades
LossTaken(a) ==
  LET realized == SumOver([i \in DOMAIN a.trade_history |->
                             a.trade_history[i].pnl],
                          DOMAIN a.trade_history)
  IN  IF realized < 0 THEN 0 - realized ELSE 0

\* C17: calculate_position_size(account_value, risk_per_trade) is the
\* least of account_value * risk_per_trade, account_value *
\* max_position_size and the daily-loss budget account_value *
\* max_daily_loss less the loss already taken; it is positive for positive
\* inputs and exceeds none of the three.
C17_SizeIsTightestBound ==
  [][ last'.op = "calculate_position_size" =>
        LET account_value == last'.args[1]
            risk_per_trade == last'.args[2]
            risk_budget == PctOf(account_value, risk_per_trade)
            ceiling == PctOf(account_value, rm.limits.max_position_size)
            remaining == PctOf(account_value, rm.limits.max_daily_loss)
                           - LossTaken(acct)
        IN  /\ last'.value = Min(risk_budget, Min(ceiling, remaining))
            /\ last'.value > 0
            /\ last'.value <= risk_budget
            /\ last'.value <= ceiling
            /\ last'.value <= remaining
    ]_vars

\* the handlers called with the alert, in the order of the calls
RECURSIVE HandlersCalled(_, _)
HandlersCalled(log, alert_id) ==
  IF log = <<>> THEN <<>>
  ELSE IF Head(log).alert = alert_id
    THEN <<Head(log).handler>> \o HandlersCalled(Tail(log), alert_id)
    ELSE HandlersCalled(Tail(log), alert_id)

\* C18: when the dispatch of an alert ends, every registered handler has
\* been called with it once, in the order of registration, whichever of
\* them raised, and the dispatch loop is back at the top of its loop, from
\* where it takes the next alert.
C18_RaisingHandlerBlocksNobody ==
  [][ \A t \in DOMAIN loops :
        (loops[t].at = "_handle_alert" /\ loops'[t].at # "_handle_alert") =>
          /\ HandlersCalled(calls', loops[t].alert[1].alert_id)
               = [h \in 1..Len(mon.alert_handlers) |-> h]
          /\ loops'[t].at = "while"
    ]_vars

\* the first handler raised, the second was called with the same alert, and
\* the loop went on to dispatch another alert
C18_Witness ==
  \E i, j, k \in DOMAIN calls :
    /\ i < j /\ j < k
    /\ calls[i].raised
    /\ calls[i].handler = 1
    /\ calls[j].handler = 2
    /\ calls[j].alert = calls[i].alert
    /\ calls[k].alert # calls[i].alert

\* the alerts of the last hour, told by their place in alerts
RecentAlertsOf(m, t) ==
  {i \in DOMAIN m.alerts : t - m.alerts[i].timestamp < Hour}

StatusRank(status) ==
  CASE status = "healthy" -> 0
    [] status = "warning" -> 1
    [] status = "error" -> 2
    [] status = "critical" -> 3

LoopsExited == \A t \in DOMAIN loops : loops[t].at = "exited"

\* the ids of the alerts the loops of the monitor can create
MonitorAlertIds == {<<0, k>> : k \in 0..(3 * MaxTicks * MaxStarts)}

\* the alert is being dispatched while the running flag is cleared
InFlightWhenStopped(alert_id) ==
  /\ ~mon.is_running
  /\ \E t \in DOMAIN loops :
       /\ loops[t].at = "_handle_alert"
       /\ loops[t].alert[1].alert_id = alert_id

DeliveredToAll(alert_id) ==
  HandlersCalled(calls, alert_id) = [h \in 1..Len(mon.alert_handlers) |-> h]

\* C20: when the running flag stays cleared from some point on, the
\* metrics-collection loop and the alert-dispatch loop both exit in the end,
\* and an alert whose dispatch is in progress while the flag is cleared is
\* still delivered to every registered handler.
C20_StopEndsLoopsAfterDispatch ==
  /\ (<>[](~mon.is_running)) => <>[]LoopsExited
  /\ \A alert_id \in MonitorAlertIds :
       InFlightWhenStopped(alert_id) ~> DeliveredToAll(alert_id)

\* both loops have exited, and a handler had been called after the flag was
\* cleared
C20_Witness ==
  /\ loops # <<>>
  /\ LoopsExited
  /\ ~mon.is_running
  /\ \E k \in DOMAIN calls : ~calls[k].is_running /\ calls[k].handler = 2

\* the call ran the cascade (the flag was clear when it was made)
CascadeRan == last'.op = "emergency_stop" /\ ~rm.emergency_stop_triggered

\* C21: when one of the six cascade steps raises, every later step is still
\* attempted within the same emergency_stop() call: a call that runs the
\* cascade attempts all six steps, whichever of them raise.
C21_LaterStepsStillAttempted ==
  [][ CascadeRan =>
        \A i \in DOMAIN rm.cascade : rm'.cascade[i] = rm.cascade[i] + 1
    ]_vars

\* C22: after emergency_stop() returns, emergency_stop_triggered and
\* is_trading_halted are both true and no exception has reached the caller,
\* whichever cascade steps raised.
C22_StopFlagsSetWhateverRaises ==
  [][ last'.op = "emergency_stop" =>
        /\ rm'.emergency_stop_triggered
        /\ rm'.is_trading_halted
        /\ last'.outcome = "returned"
    ]_vars

\* the call ran the cascade, its first step raised, and it returned with
\* both flags set
C22_Witness ==
  /\ last.op = "emergency_stop"
  /\ last.outcome = "returned"
  /\ last.args # <<>>
  /\ last.args[1] = "raises"
  /\ rm.cascade[1] = 1
  /\ rm.cascade[2] = 0
  /\ rm.emergency_stop_triggered
  /\ rm.is_trading_halted

\* what the claim compares of a Ledger state: cash, each position's quantity
\* and average price, the trade history, and the statuses of the two
\* threads' orders
LedgerView(a, id1, id2) ==
  [ cash |-> a.cash_balance,
    positions |-> [sym \in DOMAIN a.positions |->
                     << a.positions[sym].quantity,
                        a.positions[sym].average_price >>],
    trades |-> [i \in DOMAIN a.trade_history |->
                  << a.trade_history[i].side, a.trade_history[i].quantity,
                     a.trade_history[i].price, a.trade_history[i].pnl >>],
    statuses |-> <<a.orders[id1].status, a.orders[id2].status>> ]

\* placing order x and then order y, one call after the other, can end in
\* the Ledger state view from account a, for some answers of the price
\* feed; xFirst tells whether x is the order of thread t1
SerialOutcome(a, x, y, xFirst, view) ==
  \E f1, f2, f3 \in FeedPrices :
    LET r1 == place_order(a, Str(BTC), "MARKET", x.side, x.quantity, None,
                          None, f1, f2, f3)
        idx == Len(a.orders) + 1
        idy == Len(a.orders) + 2
    IN  \E g1, g2, g3 \in FeedPrices :
          LET r2 == place_order(r1.acct, Str(BTC), "MARKET", y.side,
                                y.quantity, None, None, g1, g2, g3)
          IN  view = IF xFirst THEN LedgerView(r2.acct, idx, idy)
                               ELSE LedgerView(r2.acct, idy, idx)

BothReturned == \A t \in Threads : pc[t].at = "returned"

\* C23: two threads each placing a market order on one symbol end, in every
\* interleaving, in a Ledger state (cash, position quantity, average price,
\* trade history, order statuses) that running the two calls one after the
\* other in some order also ends in.
C23_ConcurrentOrdersSerialize ==
  BothReturned =>
    LET o1 == acct.orders[pc["t1"].step]
        o2 == acct.orders[pc["t2"].step]
        base == IF pc["t1"].step < pc["t2"].step THEN pc["t1"].base
                                                 ELSE pc["t2"].base
        view == LedgerView(acct, pc["t1"].step, pc["t2"].step)
    IN  \/ SerialOutcome(base, o1, o2, TRUE, view)
        \/ SerialOutcome(base, o2, o1, FALSE, view)

\* C24: in every state reachable by place_order calls, with a price feed
\* that may return a different price on each call, cash_balance is never
\* negative.
C24_CashNeverNegative == acct.cash_balance >= 0

\* the total realized P&L of trade_history (the realized_pnl property)
realized_pnl(a) ==
  SumOver([i \in DOMAIN a.trade_history |-> a.trade_history[i].pnl],
          DOMAIN a.trade_history)

\* the open positions at their average price
CostBasis(a) ==
  SumOver([sym \in DOMAIN a.positions |->
             a.positions[sym].quantity * a.positions[sym].average_price],
          DOMAIN a.positions)

\* C29: after any sequence of filled buys and sells, cash_balance plus the
\* sum over open positions of quantity x average_price equals
\* initial_balance plus the realized P&L of trade_history minus
\* total_commission_paid.
C29_NoMoneyCreatedOrLost ==
  acct.cash_balance + CostBasis(acct)
    = acct.initial_balance + realized_pnl(acct) - acct.total_commission_paid

\* the metric is below its threshold_low or above its threshold_high
OutOfBounds(metric) ==
  \/ metric.threshold_low # None /\ metric.value < metric.threshold_low[1]
  \/ metric.threshold_high # None /\ metric.value > metric.threshold_high[1]

\* the metric names whose latest value is out of bounds
NamesOutOfBounds(m) ==
  {n \in DOMAIN m.metrics :
     m.metrics[n] # <<>> /\ OutOfBounds(Last(m.metrics[n]))}

\* C25: in each monitoring tick, every metric whose latest value is below
\* its threshold_low or above its threshold_high, for every numeric threshold
\* including 0, produces an alert appended to alerts and put on the alert
\* queue, and a metric within its bounds produces none: _check_thresholds
\* appends to both as many alerts as there are metrics out of bounds.
C25_EveryBreachAlerts ==
  [][ \A t \in DOMAIN loops :
        (loops[t].at = "_check_thresholds"
           /\ loops'[t].at = "_cleanup_old_data") =>
          LET breaches == Cardinality(NamesOutOfBounds(mon))
          IN  /\ Len(mon'.alerts) = Len(mon.alerts) + breaches
              /\ Len(mon'.alert_queue) = Len(mon.alert_queue) + breaches
              /\ \A k \in 1..breaches :
                    mon'.alerts[Len(mon.alerts) + k]
                      = mon'.alert_queue[Len(mon.alert_queue) + k]
    ]_vars

\* C26: after every monitoring tick no metric history, for any metric name,
\* holds an entry older than the retention window, whether or not the metric
\* was collected again in that tick, and each history is ordered by
\* timestamp.
C26_HistoriesWithinRetention ==
  [][ last'.op = "_monitoring_loop" =>
        \A n \in DOMAIN mon'.metrics :
          LET history == mon'.metrics[n]
              window == mon'.config.metrics_retention_hours * Hour
          IN  /\ \A i \in DOMAIN history :
                    history[i].timestamp > now' - window
              /\ \A i, j \in DOMAIN history :
                    i < j => history[i].timestamp <= history[j].timestamp
    ]_vars

\* the loops of the kind that have not exited
LiveLoops(kind) ==
  {t \in DOMAIN loops : loops[t].kind = kind /\ loops[t].at # "exited"}

\* C27: whatever start_monitoring() and stop_monitoring() calls were made,
\* at most one metrics-collection loop and at most one alert-dispatch loop
\* are running at the same time.
C27_OneLoopOfEachKind ==
  /\ Cardinality(LiveLoops("metrics")) <= 1
  /\ Cardinality(LiveLoops("alerts")) <= 1

\* the first alert was created before the second: alert ids hold the time of
\* creation and the length of the alert log at that time
CreatedBefore(id1, id2) ==
  \/ id1[1] < id2[1]
  \/ id1[1] = id2[1] /\ id1[2] < id2[2]

\* C28: a handler is called with each alert at most once, and with the
\* alerts in the order in which they were created: of two calls of the same
\* handler, the earlier one carries the alert created earlier.
C28_DispatchedOnceInCreationOrder ==
  \A i, j \in DOMAIN calls :
    (i < j /\ calls[i].handler = calls[j].handler) =>
      CreatedBefore(calls[i].alert, calls[j].alert)

\* C30: in every state, the states between the statements of a running
\* emergency_stop() or reset_emergency_stop() included, the emergency stop
\* is triggered only while trading is halted.
C30_TriggeredImpliesHalted ==
  rm.emergency_stop_triggered => rm.is_trading_halted

====
